---- MODULE Spec2Model ----
(***************************************************************************)
(* Model of the two technical-analysis indicators of stockwatcher:         *)
(*   stock/ta/rsi.rs                   rsi::run                            *)
(*   stock/ta/stochastic_oscillator.rs stochastic_oscillator::run          *)
(*                                                                         *)
(* A call is a run of a small state machine: the length check, then one    *)
(* action per loop iteration, then the return.  f32 values are modelled    *)
(* as exact rationals extended with +inf, -inf and NaN (rounding is not    *)
(* modelled); input prices are small integers.                             *)
(***************************************************************************)
EXTENDS Integers, Sequences, FiniteSets

VARIABLES engine, prices, samples, pc, i, ag, al, last_price, rsis, oscs, err, zero_fill

vars == <<engine, prices, samples, pc, i, ag, al, last_price, rsis, oscs, err, zero_fill>>

(***************************************************************************)
(* Program constants and bounds of the model                               *)
(***************************************************************************)
\* const PERIOD: usize = 14 (both files)
PERIOD == 14

\* prices and the close/low/high of a sample are drawn from 1..MaxPrice
MaxPrice == 3
\* the first PERIOD+1 prices repeat a pattern of at most MaxPat prices
MaxPat == 2
\* at most MaxTail freely chosen entries follow the head of an input
MaxTail == 2

(***************************************************************************)
(* f32 arithmetic: <<n, d>> with d > 0 is the rational n/d in lowest       *)
(* terms, <<1, 0>> is +inf, <<-1, 0>> is -inf and <<0, 0>> is NaN.         *)
(***************************************************************************)
Abs(x) == IF x < 0 THEN -x ELSE x

Sign(x) == IF x > 0 THEN 1 ELSE IF x < 0 THEN -1 ELSE 0

RECURSIVE GCD(_, _)
GCD(a, b) == IF b = 0 THEN a ELSE GCD(b, a % b)

Norm(n, d) ==
    IF d = 0 THEN <<Sign(n), 0>>
    ELSE LET g == GCD(Abs(n), Abs(d))
             s == Sign(d)
         IN  <<(s * n) \div g, Abs(d) \div g>>

F(n) == <<n, 1>>

NaN == <<0, 0>>

IsNaN(x) == x[2] = 0 /\ x[1] = 0

IsFinite(x) == x[2] > 0

FNeg(x) == <<-x[1], x[2]>>

FAdd(a, b) ==
    IF IsNaN(a) \/ IsNaN(b) THEN NaN
    ELSE IF a[2] = 0 /\ b[2] = 0 THEN (IF a[1] = b[1] THEN a ELSE NaN)
    ELSE IF a[2] = 0 THEN a
    ELSE IF b[2] = 0 THEN b
    ELSE Norm(a[1] * b[2] + b[1] * a[2], a[2] * b[2])

FSub(a, b) == FAdd(a, FNeg(b))

FMul(a, b) ==
    LET g1 == GCD(Abs(a[1]), b[2])
        g2 == GCD(Abs(b[1]), a[2])
        h1 == IF g1 = 0 THEN 1 ELSE g1
        h2 == IF g2 = 0 THEN 1 ELSE g2
    IN  Norm((a[1] \div h1) * (b[1] \div h2), (a[2] \div h2) * (b[2] \div h1))

\* 1/x: 1/0 = +inf, 1/inf = 0, 1/NaN = NaN
FRecip(x) == IF x[1] < 0 THEN <<-x[2], -x[1]>> ELSE <<x[2], x[1]>>

FDiv(a, b) == FMul(a, FRecip(b))

(***************************************************************************)
(* Vec::get: Some(&v) inside 0..len-1, None outside                        *)
(***************************************************************************)
Get(v, k) ==
    IF k >= 0 /\ k < Len(v) THEN [some |-> TRUE, v |-> v[k + 1]]
    ELSE [some |-> FALSE, v |-> 0]

\* `match prices.get(i) { Some(&v) => v, None => 0.0 }`
GetOrZero(v, k) == IF Get(v, k).some THEN Get(v, k).v ELSE 0

NoError == [kind |-> "none", received |-> 0, required |-> 0]

InsufficientData(n, req) == [kind |-> "InsufficientData", received |-> n, required |-> req]

NoEntry == [kind |-> "NoEntry", received |-> 0, required |-> 0]

Underflow == [kind |-> "Underflow", received |-> 0, required |-> 0]

(***************************************************************************)
(* Inputs                                                                  *)
(***************************************************************************)
Cycle(pat, n) == [k \in 1..n |-> pat[((k - 1) % Len(pat)) + 1]]

Words(A, lo, hi) == UNION {[1..k -> A] : k \in lo..hi}

\* test_run_simple and test_run_complex of rsi.rs
TestSimple == <<10, 12, 15, 13, 18, 10, 12, 15, 13, 18, 10, 12, 15, 13, 18>>

TestComplex == TestSimple \o <<10>>

\* fewer than PERIOD+1 prices, or a repeated pattern of PERIOD+1 prices and a free tail
PriceInputs ==
    {Cycle(p, n) : p \in Words(1..MaxPrice, 1, MaxPat), n \in 0..PERIOD}
    \cup {Cycle(p, PERIOD + 1) \o t :
             p \in Words(1..MaxPrice, 1, MaxPat), t \in Words(1..MaxPrice, 0, MaxTail)}
    \cup {TestSimple, TestComplex}

\* a sample is (close, low, high), its low not above its high
Samples == {x \in (1..MaxPrice) \X (1..MaxPrice) \X (1..MaxPrice) : x[2] <= x[3]}

\* test_run_simple of stochastic_oscillator.rs
StochTestSimple == Cycle(<<<<15, 10, 20>>, <<18, 13, 22>>>>, PERIOD)

\* fewer than PERIOD-2 equal samples, or an optional leading sample a, PERIOD-2 copies
\* of a sample b and a tail over {a, b}
SampleInputs ==
    {Cycle(<<b>>, n) : b \in Samples, n \in 0..(PERIOD - 3)}
    \cup UNION {{l \o Cycle(<<x[2]>>, PERIOD - 2) \o t :
                    l \in {<<>>, <<x[1]>>}, t \in Words({x[1], x[2]}, 0, MaxTail)} :
                x \in Samples \X Samples}
    \cup {StochTestSimple}

Locals ==
    /\ pc = "start"
    /\ i = 0
    /\ ag = F(0)
    /\ al = F(0)
    /\ last_price = 0
    /\ rsis = <<>>
    /\ oscs = <<>>
    /\ err = NoError
    /\ zero_fill = FALSE

InitRsi == engine = "rsi" /\ prices \in PriceInputs /\ samples = <<>> /\ Locals

InitStoch == engine = "stoch" /\ samples \in SampleInputs /\ prices = <<>> /\ Locals

Init == InitRsi \/ InitStoch

(***************************************************************************)
(* rsi::run                                                                *)
(***************************************************************************)
\* faulty variant: the check accepts PERIOD prices
RsiRequiredShort == PERIOD

\* the minimum number of prices, PERIOD+1
RsiRequired == PERIOD + 1

\* `if prices.len() < PERIOD+1 { panic!(...) }`, then the locals
RsiCheck ==
    /\ engine = "rsi" /\ pc = "start"
    /\ IF Len(prices) < RsiRequired
       THEN /\ pc' = "panic"
            /\ err' = InsufficientData(Len(prices), PERIOD + 1)
            /\ UNCHANGED <<i, ag, al, last_price, rsis>>
       ELSE /\ pc' = "init"
            /\ i' = 0
            /\ ag' = F(0)
            /\ al' = F(0)
            /\ last_price' = 0
            /\ rsis' = <<>>
            /\ err' = err
    /\ UNCHANGED <<engine, prices, samples, oscs, zero_fill>>

\* faulty variants: the first loop stops one index early, or runs one index too far
InitLastShort == PERIOD - 1

InitLastLong == PERIOD + 1

\* the last index of the first loop, `for i in 0..PERIOD+1`
InitLast == PERIOD

\* `ag += current_price - last_price`
InitGain(acc, cur, last) == FAdd(acc, FSub(F(cur), F(last)))

\* faulty variant: the loss is accumulated with its sign
InitLossSigned(acc, cur, last) == FAdd(acc, FSub(F(cur), F(last)))

\* `al += last_price - current_price`
InitLoss(acc, cur, last) == FAdd(acc, FSub(F(last), F(cur)))

\* one iteration of `for i in 0..PERIOD+1`
RsiInitStep ==
    /\ engine = "rsi" /\ pc = "init" /\ i <= InitLast
    /\ LET current_price == GetOrZero(prices, i)
       IN  IF i = 0
           THEN /\ last_price' = current_price
                /\ UNCHANGED <<ag, al>>
           ELSE /\ ag' = IF current_price > last_price
                         THEN InitGain(ag, current_price, last_price) ELSE ag
                /\ al' = IF current_price > last_price THEN al
                         ELSE IF current_price < last_price
                         THEN InitLoss(al, current_price, last_price) ELSE al
                /\ last_price' = current_price
    /\ zero_fill' = (zero_fill \/ ~Get(prices, i).some)
    /\ i' = i + 1
    /\ UNCHANGED <<engine, prices, samples, pc, rsis, oscs, err>>

\* `let rs = ag / al; 100.0 - (100.0 / (1.0 + rs))`
RsiValue(g, l) == FSub(F(100), FDiv(F(100), FAdd(F(1), FDiv(g, l))))

\* `ag = ag / PERIOD as f32`
InitAverage(sum) == FDiv(sum, F(PERIOD))

\* faulty variant: the second loop skips the price at PERIOD+1
RecFirstSkip == PERIOD + 2

\* the first index of the second loop, `for i in PERIOD+1..prices.len()`
RecFirst == PERIOD + 1

\* after the first loop: the averages and rsi_1
RsiFirst ==
    /\ engine = "rsi" /\ pc = "init" /\ i > InitLast
    /\ ag' = InitAverage(ag)
    /\ al' = InitAverage(al)
    /\ rsis' = Append(rsis, RsiValue(ag', al'))
    /\ pc' = "rec"
    /\ i' = RecFirst
    /\ UNCHANGED <<engine, prices, samples, last_price, oscs, err, zero_fill>>

\* `((avg * (PERIOD as f32-1.0)) + d) / PERIOD as f32`
WilderAdd(avg, d) ==
    FDiv(FAdd(FMul(avg, FSub(F(PERIOD), F(1))), d), F(PERIOD))

\* `((avg * (PERIOD as f32-1.0))) / PERIOD as f32`
WilderDecay(avg) == FDiv(FMul(avg, FSub(F(PERIOD), F(1))), F(PERIOD))

\* the averages after the price current_price follows last_price
RecAg(g, current_price, last) ==
    IF current_price > last THEN WilderAdd(g, FSub(F(current_price), F(last)))
    ELSE IF current_price < last THEN WilderDecay(g)
    ELSE g

RecAl(l, current_price, last) ==
    IF current_price > last THEN WilderDecay(l)
    ELSE IF current_price < last THEN WilderAdd(l, FSub(F(last), F(current_price)))
    ELSE l

\* faulty variant: last_price is not advanced
RecLastStale(current_price, last) == last

\* `last_price = current_price` at the end of an iteration
RecLast(current_price, last) == current_price

\* one iteration of `for i in PERIOD+1..prices.len()`
RsiRecStep ==
    /\ engine = "rsi" /\ pc = "rec" /\ i < Len(prices)
    /\ LET current_price == GetOrZero(prices, i)
       IN  /\ ag' = RecAg(ag, current_price, last_price)
           /\ al' = RecAl(al, current_price, last_price)
           /\ rsis' = Append(rsis, RsiValue(ag', al'))
           /\ last_price' = RecLast(current_price, last_price)
    /\ zero_fill' = (zero_fill \/ ~Get(prices, i).some)
    /\ i' = i + 1
    /\ UNCHANGED <<engine, prices, samples, pc, oscs, err>>

\* `return rsis`
RsiReturn ==
    /\ engine = "rsi" /\ pc = "rec" /\ i >= Len(prices)
    /\ pc' = "done"
    /\ UNCHANGED <<engine, prices, samples, i, ag, al, last_price, rsis, oscs, err, zero_fill>>

(***************************************************************************)
(* stochastic_oscillator::run                                              *)
(***************************************************************************)
\* the minimum number of samples, PERIOD
StochRequired == PERIOD

\* `if prices.len() < PERIOD { panic!(...) }`, then `oscs`
StochCheck ==
    /\ engine = "stoch" /\ pc = "start"
    /\ IF Len(samples) < StochRequired
       THEN /\ pc' = "panic"
            /\ err' = InsufficientData(Len(samples), PERIOD)
            /\ UNCHANGED <<i, oscs>>
       ELSE /\ pc' = "loop"
            /\ i' = PERIOD - 1
            /\ oscs' = <<>>
            /\ err' = err
    /\ UNCHANGED <<engine, prices, samples, ag, al, last_price, rsis, zero_fill>>

\* faulty variant: the scan leaves out the oldest sample of the window
WindowStartLate(k) == k + 2 - PERIOD

\* the first index of the inner loop, `i+1-PERIOD`
WindowStart(k) == k + 1 - PERIOD

\* faulty variant: the comparison is reversed, keeping the highest low
LowUpdateMax(low14, prev) == IF low14 < prev[2] THEN prev[2] ELSE low14

\* `if low14 > prev.1 { low14 = prev.1; }`
LowUpdate(low14, prev) == IF low14 > prev[2] THEN prev[2] ELSE low14

\* `if high14 < prev.2 { high14 = prev.2; }`
HighUpdate(high14, prev) == IF high14 < prev[3] THEN prev[3] ELSE high14

\* `for j in i+1-PERIOD..i`: the running minimum and maximum, from index j to end-1
RECURSIVE Scan(_, _, _, _)
Scan(S, j, end, acc) ==
    IF j >= end \/ ~acc.ok THEN acc
    ELSE LET prev == Get(S, j)
         IN  IF ~prev.some THEN [acc EXCEPT !.ok = FALSE]
             ELSE Scan(S, j + 1, end,
                       [ok |-> TRUE,
                        low14 |-> LowUpdate(acc.low14, prev.v),
                        high14 |-> HighUpdate(acc.high14, prev.v)])

\* faulty variant: a flat window is given the value 0 instead of dividing by zero
OscGuarded(p, low14, high14) ==
    IF high14 = low14 THEN F(0)
    ELSE FMul(FDiv(FSub(F(p), F(low14)), FSub(F(high14), F(low14))), F(100))

\* `((p - low14) / (high14 - low14)) * 100.0`
Osc(p, low14, high14) ==
    FMul(FDiv(FSub(F(p), F(low14)), FSub(F(high14), F(low14))), F(100))

\* low14 and high14 of the window ending at k, seeded with the sample cur at k
Window(S, k, cur) == Scan(S, WindowStart(k), k, [ok |-> TRUE, low14 |-> cur[2], high14 |-> cur[3]])

\* one iteration of `for i in PERIOD-1..prices.len()`
StochStep ==
    /\ engine = "stoch" /\ pc = "loop" /\ i < Len(samples)
    /\ LET cur == Get(samples, i)
       IN  IF ~cur.some
           THEN pc' = "panic" /\ err' = NoEntry /\ UNCHANGED <<i, oscs>>
           ELSE IF WindowStart(i) < 0
           THEN \* usize underflow: a panic (overflow checks on) or a wrapped, empty range
                \/ pc' = "panic" /\ err' = Underflow /\ UNCHANGED <<i, oscs>>
                \/ /\ oscs' = Append(oscs, Osc(cur.v[1], cur.v[2], cur.v[3]))
                   /\ i' = i + 1
                   /\ UNCHANGED <<pc, err>>
           ELSE LET w == Window(samples, i, cur.v)
                IN  IF ~w.ok
                    THEN pc' = "panic" /\ err' = NoEntry /\ UNCHANGED <<i, oscs>>
                    ELSE /\ oscs' = Append(oscs, Osc(cur.v[1], w.low14, w.high14))
                         /\ i' = i + 1
                         /\ UNCHANGED <<pc, err>>
    /\ UNCHANGED <<engine, prices, samples, ag, al, last_price, rsis, zero_fill>>

\* `return oscs`
StochReturn ==
    /\ engine = "stoch" /\ pc = "loop" /\ i >= Len(samples)
    /\ pc' = "done"
    /\ UNCHANGED <<engine, prices, samples, i, ag, al, last_price, rsis, oscs, err, zero_fill>>

NextRsi == RsiCheck \/ RsiInitStep \/ RsiFirst \/ RsiRecStep \/ RsiReturn

NextStoch == StochCheck \/ StochStep \/ StochReturn

Next == NextRsi \/ NextStoch

\* a call of either function
Spec == Init /\ [][Next]_vars

\* the calls of rsi::run
SpecRsi == InitRsi /\ [][NextRsi]_vars

\* the calls of stochastic_oscillator::run
SpecStoch == InitStoch /\ [][NextStoch]_vars

(***************************************************************************)
(* Vocabulary of the properties                                            *)
(***************************************************************************)
\* a finite value in [0, 100]
InRange(x) == IsFinite(x) /\ x[1] >= 0 /\ x[1] <= 100 * x[2]

\* the difference price[k] - price[k-1], k a 0-based index
Delta(P, k) == P[k + 1] - P[k]

RECURSIVE SumOver(_, _, _)
SumOver(Op(_), lo, hi) == IF lo > hi THEN 0 ELSE Op(lo) + SumOver(Op, lo + 1, hi)

\* the sums of the positive and of the negative differences of the first PERIOD+1 prices
GainSum(P) == LET g(k) == IF Delta(P, k) > 0 THEN Delta(P, k) ELSE 0 IN SumOver(g, 1, 14)

LossSum(P) == LET l(k) == IF Delta(P, k) < 0 THEN -Delta(P, k) ELSE 0 IN SumOver(l, 1, 14)

\* 100 - 100/(1 + AG/AL)
RsiOf(AG, AL) == FSub(F(100), FDiv(F(100), FAdd(F(1), FDiv(AG, AL))))

\* no 14 consecutive differences that are all gains, all losses or all zero
NonDegenerate(P) ==
    \A s \in 1..(Len(P) - 14) :
        /\ \E k \in s..(s + 13) : Delta(P, k) <= 0
        /\ \E k \in s..(s + 13) : Delta(P, k) >= 0
        /\ \E k \in s..(s + 13) : Delta(P, k) # 0

SetMin(S) == CHOOSE x \in S : \A y \in S : x <= y

SetMax(S) == CHOOSE x \in S : \A y \in S : x >= y

\* the lowest low and the highest high of the 14 samples ending at 0-based index e
Low14(S, e) == SetMin({S[j + 1][2] : j \in (e - 13)..e})

High14(S, e) == SetMax({S[j + 1][3] : j \in (e - 13)..e})

Flat(S, e) == High14(S, e) = Low14(S, e)

AllValid(S) == \A k \in 1..Len(S) : S[k][2] <= S[k][1] /\ S[k][1] <= S[k][3]

\* the 0-based input index of the k-th %K value (k from 1)
EndOf(k) == 13 + (k - 1)

(***************************************************************************)
(* Properties                                                              *)
(***************************************************************************)
\* C1: rsi::run fails with the insufficient-data error exactly when it is given fewer
\* than 15 prices, and stochastic_oscillator::run exactly when it is given fewer than
\* 14 samples; the error reports received = n and required = 15 or 14, and no output
\* value has been produced when it is raised.
C1_InsufficientData ==
    /\ (engine = "rsi" /\ pc # "start") => (pc = "panic" <=> Len(prices) < 15)
    /\ (engine = "stoch" /\ pc # "start") => (pc = "panic" <=> Len(samples) < 14)
    /\ (engine = "rsi" /\ pc = "panic") =>
           err = [kind |-> "InsufficientData", received |-> Len(prices), required |-> 15]
    /\ (engine = "stoch" /\ pc = "panic") =>
           err = [kind |-> "InsufficientData", received |-> Len(samples), required |-> 14]
    /\ pc = "panic" => (rsis = <<>> /\ oscs = <<>>)

\* rsi::run has failed on 14 prices, one fewer than it needs
C1_Witness ==
    /\ engine = "rsi" /\ pc = "panic" /\ Len(prices) = 14
    /\ err.received = 14 /\ err.required = 15

\* C2: a returned RSI sequence has len(P) - 14 values and a returned %K sequence
\* len(S) - 14 + 1; the k-th value (from 0) is appended when the input index 14+k
\* (RSI) or 13+k (%K) is processed, and a value once appended is never changed.
C2_LengthLaw ==
    /\ [](/\ (engine = "rsi" /\ pc = "done") => Len(rsis) = Len(prices) - 14
          /\ (engine = "stoch" /\ pc = "done") => Len(oscs) = Len(samples) - 14 + 1
          /\ (engine = "rsi" /\ pc = "rec") => Len(rsis) = i - 14
          /\ (engine = "stoch" /\ pc = "loop") => Len(oscs) = i - 13)
    /\ [][/\ Len(rsis') >= Len(rsis) /\ SubSeq(rsis', 1, Len(rsis)) = rsis
          /\ Len(oscs') >= Len(oscs) /\ SubSeq(oscs', 1, Len(oscs)) = oscs]_vars

\* rsi::run has returned 3 values for 17 prices
C2_Witness == engine = "rsi" /\ pc = "done" /\ Len(prices) = 17 /\ Len(rsis) = 3

\* C3: when every sample has low <= close <= high and no 14-sample window is flat,
\* every %K value lies in [0, 100].
C3_PercentKBounded ==
    (engine = "stoch" /\ AllValid(samples)
        /\ \A e \in 13..(Len(samples) - 1) : ~Flat(samples, e))
    => \A k \in 1..Len(oscs) : InRange(oscs[k])

\* a returned sequence of two %K values on such an input, one of them 50
C3_Witness ==
    /\ engine = "stoch" /\ pc = "done" /\ Len(oscs) = 2
    /\ AllValid(samples) /\ \A e \in 13..(Len(samples) - 1) : ~Flat(samples, e)
    /\ \E k \in 1..2 : oscs[k] = <<50, 1>>

\* C4: on a strictly non-degenerate input every RSI value, the first and those of the
\* recurrence, lies in [0, 100].
C4_RsiBounded ==
    (engine = "rsi" /\ NonDegenerate(prices)) => \A k \in 1..Len(rsis) : InRange(rsis[k])

\* three RSI values of such an input, the last strictly between 0 and 100
C4_Witness ==
    /\ engine = "rsi" /\ pc = "done" /\ Len(rsis) = 3 /\ NonDegenerate(prices)
    /\ rsis[3][1] > 0 /\ rsis[3][1] < 100 * rsis[3][2]

\* C5: the first RSI value is 100 - 100/(1 + AG/AL) with AG = gain_sum/14 and
\* AL = loss_sum/14 over the 14 differences of the first 15 prices; it is the only
\* value for 15 prices and the first value for every longer input.
C5_FirstValue ==
    /\ (engine = "rsi" /\ Len(rsis) >= 1) =>
           rsis[1] = RsiOf(FDiv(F(GainSum(prices)), F(14)), FDiv(F(LossSum(prices)), F(14)))
    /\ (engine = "rsi" /\ pc = "rec" /\ i = 15) =>
           /\ ag = FDiv(F(GainSum(prices)), F(14))
           /\ al = FDiv(F(LossSum(prices)), F(14))
    /\ (engine = "rsi" /\ pc = "done" /\ Len(prices) = 15) => Len(rsis) = 1

\* test_run_simple: 57.69231 = 750/13
C5_Witness == engine = "rsi" /\ pc = "done" /\ prices = TestSimple /\ rsis = << <<750, 13>> >>

\* C6: with at least 14 samples the call never fails and returns len - 13 values; the
\* value of a flat window is non-finite, and the value of every other window is
\* 100 * (close - low14) / (high14 - low14) of its own window.
C6_FlatWindow ==
    engine = "stoch" =>
        /\ Len(samples) >= 14 => pc # "panic"
        /\ pc = "done" => Len(oscs) = Len(samples) - 13
        /\ \A k \in 1..Len(oscs) :
              IF Flat(samples, EndOf(k))
              THEN ~IsFinite(oscs[k])
              ELSE oscs[k] = Norm(100 * (samples[EndOf(k) + 1][1] - Low14(samples, EndOf(k))),
                                  High14(samples, EndOf(k)) - Low14(samples, EndOf(k)))

\* a returned sequence with a flat and a non-flat window
C6_Witness ==
    /\ engine = "stoch" /\ pc = "done"
    /\ \E k \in 1..Len(oscs) : Flat(samples, EndOf(k)) /\ ~IsFinite(oscs[k])
    /\ \E k \in 1..Len(oscs) : ~Flat(samples, EndOf(k)) /\ IsFinite(oscs[k])

\* C7: a recurrence step whose price equals the previous price multiplies both averages
\* by 13/14.
C7_ZeroDeltaDecays ==
    [][(engine = "rsi" /\ pc = "rec" /\ i < Len(prices) /\ Delta(prices, i) = 0)
       => /\ ag' = FDiv(FMul(ag, F(13)), F(14))
          /\ al' = FDiv(FMul(al, F(13)), F(14))]_vars

\* C8: a recurrence step whose price differs from the previous price by delta sets
\* AG to (AG*13 + delta)/14 and AL to AL*13/14 when delta > 0, AG to AG*13/14 and AL to
\* (AL*13 + |delta|)/14 when delta < 0, and appends 100 - 100/(1 + AG/AL) of the new
\* averages, whose ratio is ((pag*13)+cg)/((pal*13)+cl).
C8_WilderStep ==
    [][(engine = "rsi" /\ pc = "rec" /\ i < Len(prices) /\ Delta(prices, i) # 0)
       => LET delta == Delta(prices, i)
              cg == IF delta > 0 THEN delta ELSE 0
              cl == IF delta < 0 THEN -delta ELSE 0
          IN  /\ ag' = FDiv(FAdd(FMul(ag, F(13)), F(cg)), F(14))
              /\ al' = FDiv(FAdd(FMul(al, F(13)), F(cl)), F(14))
              /\ rsis' = Append(rsis, RsiOf(ag', al'))
              /\ FDiv(ag', al') = FDiv(FAdd(FMul(ag, F(13)), F(cg)),
                                       FAdd(FMul(al, F(13)), F(cl)))]_vars

\* test_run_complex: after the loss of 8, 49.492382 = 9750/197
C8_Witness ==
    /\ engine = "rsi" /\ pc = "done" /\ prices = TestComplex
    /\ rsis = << <<750, 13>>, <<9750, 197>> >>

\* C9: the k-th %K value is ((close - low14) / (high14 - low14)) * 100 with close of
\* the sample at index 13+k and low14, high14 the minimum low and maximum high of
\* exactly the 14 samples ending there.
C9_Window ==
    engine = "stoch" =>
        \A k \in 1..Len(oscs) :
            LET e == EndOf(k)
                lo == F(Low14(samples, e))
                hi == F(High14(samples, e))
            IN  oscs[k] = FMul(FDiv(FSub(F(samples[e + 1][1]), lo), FSub(hi, lo)), F(100))

\* two values, the first with a window whose oldest sample alone holds the lowest low
C9_Witness ==
    /\ engine = "stoch" /\ pc = "done" /\ Len(oscs) = 2
    /\ \A j \in 2..14 : samples[j][2] > samples[1][2]
    /\ IsFinite(oscs[1]) /\ IsFinite(oscs[2]) /\ oscs[1] # oscs[2]

\* C10: on an input that passes the length check no read is out of range: no price is
\* zero-filled, the only failure is the insufficient-data one, every index read is
\* below the length and the window start is never negative.
C10_InRange ==
    /\ ~zero_fill
    /\ pc = "panic" => err.kind = "InsufficientData"
    /\ (engine = "rsi" /\ pc = "init" /\ i <= 14) => i < Len(prices)
    /\ (engine = "stoch" /\ pc = "loop" /\ i < Len(samples)) => (i - 13 >= 0)

\* rsi::run has returned on exactly 15 prices, having read the indices 0..14
C10_Witness == engine = "rsi" /\ pc = "done" /\ Len(prices) = 15 /\ ~zero_fill

====
